---- MODULE Spec2Model ----
(***************************************************************************)
(* ZKP login: payload parser, proof verifier, club membership checker and  *)
(* the login controller, as a state machine over concurrent login          *)
(* attempts that share one account store.                                  *)
(***************************************************************************)
EXTENDS Integers, Sequences, FiniteSets, TLC

(***************************************************************************)
(* Texts.  A text is a sequence of characters; every character is a        *)
(* string.  "sp" is a space, "zw" is U+200B (zero-width, not white space   *)
(* for trim()), "bom" is U+FEFF (zero-width and white space for trim()).   *)
(* Inside JSON text a quoted key such as "a" is one character "ka", the    *)
(* literals null, false and the empty string are one character each.       *)
(***************************************************************************)
Digits == {"0", "1", "2", "3", "4", "5", "6", "7", "8", "9"}

WhiteSpace == {"sp", "bom"}

ZeroWidth == {"zw", "bom"}

FieldKeys == {"ka", "kb", "kc", "kinput"}

DigitVal(ch) ==
  CASE ch = "0" -> 0 [] ch = "1" -> 1 [] ch = "2" -> 2 [] ch = "3" -> 3
    [] ch = "4" -> 4 [] ch = "5" -> 5 [] ch = "6" -> 6 [] ch = "7" -> 7
    [] ch = "8" -> 8 [] ch = "9" -> 9

\* the digit of a value from 0 to 9
DigitOf(n) == CHOOSE ch \in Digits : DigitVal(ch) = n

RECURSIVE TrimStart(_)
TrimStart(s) ==
  IF s # <<>> /\ Head(s) \in WhiteSpace THEN TrimStart(Tail(s)) ELSE s

RECURSIVE TrimEnd(_)
TrimEnd(s) ==
  IF s # <<>> /\ s[Len(s)] \in WhiteSpace
    THEN TrimEnd(SubSeq(s, 1, Len(s) - 1))
    ELSE s

Trim(s) == TrimEnd(TrimStart(s))

StripZeroWidth(s) == SelectSeq(s, LAMBDA ch : ch \notin ZeroWidth)

\* s.split(/\s*,\s*/).map((p) => p.trim()): the parts between commas, trimmed
RECURSIVE SplitAcc(_, _, _)
SplitAcc(s, cur, acc) ==
  IF s = <<>> THEN Append(acc, Trim(cur))
  ELSE IF Head(s) = "," THEN SplitAcc(Tail(s), <<>>, Append(acc, Trim(cur)))
  ELSE SplitAcc(Tail(s), Append(cur, Head(s)), acc)

SplitComma(s) == SplitAcc(s, <<>>, <<>>)

(***************************************************************************)
(* JavaScript values.  A scalar is [q, d]: d its characters, q TRUE for a  *)
(* string and FALSE for a number.  A value is [t, v, rows]: t its type, v  *)
(* its scalars (one for a number or a string, the elements of an array, a  *)
(* nested array flattened row by row) and rows the length of each row of   *)
(* a nested array.  A value of type "TypeError" stands for the exception   *)
(* raised by reading a property of undefined or null.                      *)
(***************************************************************************)
Str(d) == [q |-> TRUE, d |-> d]

Num(d) == [q |-> FALSE, d |-> d]

Undefined == [t |-> "undefined", v |-> <<>>, rows |-> <<>>]

Atom(t) == [t |-> t, v |-> <<>>, rows |-> <<>>]

Scalar(sc) ==
  [t |-> IF sc.q THEN "string" ELSE "number", v |-> <<sc>>, rows |-> <<>>]

Vec(v) == [t |-> "vec", v |-> v, rows |-> <<>>]

Mat(v, rows) == [t |-> "mat", v |-> v, rows |-> rows]

AllDigits(d) == \A i \in 1..Len(d) : d[i] \in Digits

\* the decimal digits of an integer without leading zeros; "" is 0
RECURSIVE Canonical(_)
Canonical(d) ==
  IF d = <<>> THEN << "0" >>
  ELSE IF Len(d) > 1 /\ Head(d) = "0" THEN Canonical(Tail(d))
  ELSE d

\* d <= e for two integers without leading zeros
LessEq(d, e) ==
  \/ Len(d) < Len(e)
  \/ d = e
  \/ /\ Len(d) = Len(e)
     /\ \E i \in 1..Len(d) :
          /\ \A j \in 1..(i - 1) : d[j] = e[j]
          /\ DigitVal(d[i]) < DigitVal(e[i])

\* d + 1
RECURSIVE Succ(_)
Succ(d) ==
  IF d = <<>> THEN << "1" >>
  ELSE IF d[Len(d)] = "9" THEN Append(Succ(SubSeq(d, 1, Len(d) - 1)), "0")
  ELSE Append(SubSeq(d, 1, Len(d) - 1),
              DigitOf(DigitVal(d[Len(d)]) + 1))

\* 2^53: up to here every integer is a double
TwoTo53 ==
  << "9", "0", "0", "7", "1", "9", "9", "2", "5", "4", "7", "4", "0", "9",
     "9", "2" >>

\* the integer value of the double nearest to the integer literal d, ties
\* to even, for d below 2^54: above 2^53 the doubles are the even integers
\* and a tie goes to the multiple of 4
DoubleOf(d) ==
  IF LessEq(d, TwoTo53) \/ DigitVal(d[Len(d)]) % 2 = 0 THEN d
  ELSE IF (10 * DigitVal(d[Len(d) - 1]) + DigitVal(d[Len(d)])) % 4 = 1
    THEN Append(SubSeq(d, 1, Len(d) - 1),
                DigitOf(DigitVal(d[Len(d)]) - 1))
  ELSE Succ(d)

\* JavaScript truthiness of a value
Truthy(val) ==
  CASE val.t \in {"vec", "mat"} -> TRUE
    [] val.t = "string" -> val.v[1].d # <<>>
    [] val.t = "number" -> val.v[1].d # << "0" >>
    [] OTHER -> FALSE

RECURSIVE SumSeq(_)
SumSeq(ns) == IF ns = <<>> THEN 0 ELSE Head(ns) + SumSeq(Tail(ns))

\* val[i] in JavaScript, i counted from 0
Elem(val, i) ==
  CASE val.t \in {"undefined", "null", "TypeError"} -> Atom("TypeError")
    [] val.t = "vec" ->
         IF i + 1 <= Len(val.v) THEN Scalar(val.v[i + 1]) ELSE Undefined
    [] val.t = "mat" ->
         IF i + 1 <= Len(val.rows)
           THEN LET from == SumSeq(SubSeq(val.rows, 1, i))
                IN  Vec(SubSeq(val.v, from + 1, from + val.rows[i + 1]))
           ELSE Undefined
    [] val.t = "string" ->
         IF i + 1 <= Len(val.v[1].d)
           THEN Scalar(Str(<<val.v[1].d[i + 1]>>))
           ELSE Undefined
    [] OTHER -> Undefined

Object(a, b, c, input) == [a |-> a, b |-> b, c |-> c, input |-> input]

EmptyObject == Object(Undefined, Undefined, Undefined, Undefined)

Ok(payload) == [ok |-> TRUE, payload |-> payload, error |-> ""]

Throw(error) == [ok |-> FALSE, payload |-> EmptyObject, error |-> error]

(***************************************************************************)
(* JSON.parse on the texts above: an object whose members are the four     *)
(* proof fields (or the foreign key "kx"), with values null, false, a      *)
(* number, a string, an array of scalars or an array of such arrays.       *)
(***************************************************************************)
RECURSIVE SkipSp(_)
SkipSp(s) == IF s # <<>> /\ Head(s) = "sp" THEN SkipSp(Tail(s)) ELSE s

RECURSIVE ReadDigits(_, _)
ReadDigits(s, acc) ==
  IF s # <<>> /\ Head(s) \in Digits
    THEN ReadDigits(Tail(s), Append(acc, Head(s)))
    ELSE [d |-> acc, rest |-> s]

\* the characters of a string literal, after its opening quote "q"
RECURSIVE ReadString(_, _)
ReadString(s, acc) ==
  IF s = <<>> THEN [ok |-> FALSE, d |-> acc, rest |-> s]
  ELSE IF Head(s) = "q" THEN [ok |-> TRUE, d |-> acc, rest |-> Tail(s)]
  ELSE ReadString(Tail(s), Append(acc, Head(s)))

NoScalar == [ok |-> FALSE, sc |-> Num(<<>>), rest |-> <<>>]

StringScalar(r) ==
  IF r.ok THEN [ok |-> TRUE, sc |-> Str(r.d), rest |-> r.rest] ELSE NoScalar

\* a number has no leading zero
NumberScalar(r) ==
  IF Len(r.d) > 1 /\ r.d[1] = "0" THEN NoScalar
  ELSE [ok |-> TRUE, sc |-> Num(DoubleOf(r.d)), rest |-> r.rest]

ScalarAt(s) ==
  IF s = <<>> THEN NoScalar
  ELSE IF Head(s) = "q" THEN StringScalar(ReadString(Tail(s), <<>>))
  ELSE IF Head(s) \in Digits THEN NumberScalar(ReadDigits(s, <<>>))
  ELSE NoScalar

NoRow == [ok |-> FALSE, v |-> <<>>, rest |-> <<>>]

RECURSIVE JsonRow(_, _)

RowNext(t, acc) ==
  IF t = <<>> THEN NoRow
  ELSE IF Head(t) = "]" THEN [ok |-> TRUE, v |-> acc, rest |-> Tail(t)]
  ELSE IF Head(t) = "," THEN JsonRow(Tail(t), acc)
  ELSE NoRow

RowElem(e, acc) ==
  IF e.ok THEN RowNext(SkipSp(e.rest), Append(acc, e.sc)) ELSE NoRow

RowAt(s, acc) ==
  IF s # <<>> /\ Head(s) = "]" /\ acc = <<>>
    THEN [ok |-> TRUE, v |-> acc, rest |-> Tail(s)]
    ELSE RowElem(ScalarAt(s), acc)

\* the elements of an array of scalars, after its opening bracket
JsonRow(s, acc) == RowAt(SkipSp(s), acc)

NoValue == [ok |-> FALSE, val |-> Undefined, rest |-> <<>>]

RECURSIVE JsonRows(_, _, _)

RowsNext(t, v, rows) ==
  IF t = <<>> THEN NoValue
  ELSE IF Head(t) = "]"
    THEN [ok |-> TRUE, val |-> Mat(v, rows), rest |-> Tail(t)]
  ELSE IF Head(t) = "," THEN JsonRows(Tail(t), v, rows)
  ELSE NoValue

RowsElem(r, v, rows) ==
  IF r.ok THEN RowsNext(SkipSp(r.rest), v \o r.v, Append(rows, Len(r.v)))
  ELSE NoValue

RowsAt(s, v, rows) ==
  IF s = <<>> \/ Head(s) # "[" THEN NoValue
  ELSE RowsElem(JsonRow(Tail(s), <<>>), v, rows)

\* the rows of an array of arrays, after its opening bracket
JsonRows(s, v, rows) == RowsAt(SkipSp(s), v, rows)

RowValue(r) ==
  IF r.ok THEN [ok |-> TRUE, val |-> Vec(r.v), rest |-> r.rest] ELSE NoValue

ScalarValue(e) ==
  IF e.ok THEN [ok |-> TRUE, val |-> Scalar(e.sc), rest |-> e.rest]
  ELSE NoValue

\* an array, after its opening bracket
ArrayAt(t) ==
  IF t # <<>> /\ Head(t) = "[" THEN RowsAt(t, <<>>, <<>>)
  ELSE RowValue(RowAt(t, <<>>))

ValueAt(s) ==
  IF s = <<>> THEN NoValue
  ELSE IF Head(s) \in {"null", "false"}
    THEN [ok |-> TRUE, val |-> Atom(Head(s)), rest |-> Tail(s)]
  ELSE IF Head(s) = "[" THEN ArrayAt(SkipSp(Tail(s)))
  ELSE ScalarValue(ScalarAt(s))

SetField(obj, key, val) ==
  CASE key = "ka" -> [obj EXCEPT !.a = val]
    [] key = "kb" -> [obj EXCEPT !.b = val]
    [] key = "kc" -> [obj EXCEPT !.c = val]
    [] key = "kinput" -> [obj EXCEPT !.input = val]
    [] OTHER -> obj

\* the text after the closing brace
ObjectEnd(rest, obj) == IF rest = <<>> THEN Ok(obj) ELSE Throw("SyntaxError")

RECURSIVE JsonMembers(_, _)

MemberNext(u, obj) ==
  IF u = <<>> THEN Throw("SyntaxError")
  ELSE IF Head(u) = "}" THEN ObjectEnd(SkipSp(Tail(u)), obj)
  ELSE IF Head(u) = "," THEN JsonMembers(Tail(u), obj)
  ELSE Throw("SyntaxError")

MemberValue(key, m, obj) ==
  IF m.ok THEN MemberNext(SkipSp(m.rest), SetField(obj, key, m.val))
  ELSE Throw("SyntaxError")

MemberColon(key, t, obj) ==
  IF t = <<>> \/ Head(t) # ":" THEN Throw("SyntaxError")
  ELSE MemberValue(key, ValueAt(SkipSp(Tail(t))), obj)

MemberAt(s, obj) ==
  IF s = <<>> \/ Head(s) \notin FieldKeys \cup {"kx"}
    THEN Throw("SyntaxError")
    ELSE MemberColon(Head(s), SkipSp(Tail(s)), obj)

\* the members of an object, after its opening brace
JsonMembers(s, obj) == MemberAt(SkipSp(s), obj)

ObjectBody(t) ==
  IF t # <<>> /\ Head(t) = "}" THEN ObjectEnd(SkipSp(Tail(t)), EmptyObject)
  ELSE MemberAt(t, EmptyObject)

ObjectAt(s) ==
  IF s = <<>> \/ Head(s) # "{" THEN Throw("SyntaxError")
  ELSE ObjectBody(SkipSp(Tail(s)))

JsonParse(s) == ObjectAt(SkipSp(s))

(***************************************************************************)
(* The proof payload parser and the conversion to contract arguments.      *)
(* A zkpCode is [kind, text, payload]: kind "string" carries text, kind    *)
(* "object" carries an already structured payload, kind "undefined" is a   *)
(* request body without a zkpCode.                                         *)
(***************************************************************************)
StringCode(text) == [kind |-> "string", text |-> text, payload |-> EmptyObject]

ObjectCode(payload) == [kind |-> "object", text |-> <<>>, payload |-> payload]

NoCode == [kind |-> "undefined", text |-> <<>>, payload |-> EmptyObject]

StartsWithBrace(s) == s # <<>> /\ Head(s) = "{"

PayloadOfParts(parts) ==
  Object(Vec(<<Str(parts[1]), Str(parts[2])>>),
         Mat(<<Str(parts[3]), Str(parts[4]), Str(parts[5]), Str(parts[6])>>,
             <<2, 2>>),
         Vec(<<Str(parts[7]), Str(parts[8])>>),
         Vec(<<Str(parts[9])>>))

PartsPayload(parts) ==
  IF Len(parts) # 9 THEN Throw("INVALID_ZKP_CODE")
  ELSE Ok(PayloadOfParts(parts))

\* s is the trimmed text
ParseString(s) ==
  IF StartsWithBrace(s) THEN JsonParse(s)
  ELSE PartsPayload(SplitComma(StripZeroWidth(s)))

parseZkpCode(input) ==
  IF input.kind = "string" THEN ParseString(Trim(input.text))
  ELSE Ok(input.payload)

BigOk(n) == [ok |-> TRUE, n |-> n, error |-> ""]

BigThrow(error) == [ok |-> FALSE, n |-> <<>>, error |-> error]

\* BigInt of a string, t its characters without the surrounding white space
BigIntOfTrimmed(t) ==
  IF AllDigits(t) THEN BigOk(Canonical(t)) ELSE BigThrow("SyntaxError")

BigIntOfChars(d) == BigIntOfTrimmed(Trim(d))

\* BigInt(val)
BigInt(val) ==
  CASE val.t \in {"undefined", "null", "TypeError"} -> BigThrow("TypeError")
    [] val.t = "false" -> BigOk(<< "0" >>)
    [] val.t = "number" -> BigOk(val.v[1].d)
    [] val.t = "string" -> BigIntOfChars(val.v[1].d)
    [] val.t = "vec" \/ (val.t = "mat" /\ Len(val.rows) = 1) ->
         IF Len(val.v) = 0 THEN BigOk(<< "0" >>)
         ELSE IF Len(val.v) = 1 THEN BigIntOfChars(val.v[1].d)
         ELSE BigThrow("SyntaxError")
    [] OTHER -> BigThrow("SyntaxError")

\* the nine scalars in the order toContractArgs converts them
ArgValues(payload) ==
  << Elem(payload.a, 0), Elem(payload.a, 1),
     Elem(Elem(payload.b, 0), 0), Elem(Elem(payload.b, 0), 1),
     Elem(Elem(payload.b, 1), 0), Elem(Elem(payload.b, 1), 1),
     Elem(payload.c, 0), Elem(payload.c, 1),
     Elem(payload.input, 0) >>

ArgsOk(ns) == [ok |-> TRUE, args |-> ns, error |-> ""]

ArgsThrow(error) == [ok |-> FALSE, args |-> <<>>, error |-> error]

\* the exception of the first conversion that throws
FirstThrow(bigs, bad) ==
  ArgsThrow(bigs[CHOOSE i \in bad : \A j \in bad : i <= j].error)

Converted(bigs) ==
  IF \A i \in 1..9 : bigs[i].ok THEN ArgsOk([i \in 1..9 |-> bigs[i].n])
  ELSE FirstThrow(bigs, {i \in 1..9 : ~bigs[i].ok})

ConvertAll(vals) == Converted([i \in 1..9 |-> BigInt(vals[i])])

toContractArgs(payload) == ConvertAll(ArgValues(payload))

LacksField(obj) ==
  ~Truthy(obj.a) \/ ~Truthy(obj.b) \/ ~Truthy(obj.c) \/ ~Truthy(obj.input)

ValidateJson(parsed) ==
  IF ~parsed.ok THEN "Invalid JSON format"
  ELSE IF LacksField(parsed.payload) THEN "Invalid ZKP Code format"
  ELSE "true"

ValidateParts(parts) ==
  IF Len(parts) # 9
    THEN "ZKP Code must have exactly 9 comma-separated values"
    ELSE "true"

ValidateString(trimmed) ==
  IF StartsWithBrace(trimmed) THEN ValidateJson(JsonParse(trimmed))
  ELSE ValidateParts(SplitComma(StripZeroWidth(trimmed)))

\* validate of the login form: "true" or the message shown to the user
validate(input) ==
  IF input.kind # "string" THEN "true" ELSE ValidateString(Trim(input.text))

(***************************************************************************)
(* Addresses are hex strings, kept as sequences of characters so that      *)
(* letter case is visible.                                                 *)
(***************************************************************************)
LowerChar(ch) ==
  CASE ch = "A" -> "a" [] ch = "B" -> "b" [] OTHER -> ch

toLowerCase(addr) == [i \in DOMAIN addr |-> LowerChar(addr[i])]

Addresses == {<<"a", "1">>, <<"A", "1">>, <<"b", "2">>}

NoAddress == <<>>

REQUIRED_CLUB_NAME == "justhub"

\* the four flags of checkDetailedMembership
FlagSets == [1..4 -> BOOLEAN]

\* concurrent request slots
Procs == {1, 2}

\* login requests of a run of attempts made one after another
MaxAttempts == 2

(***************************************************************************)
(* The texts and objects that login requests carry.                        *)
(***************************************************************************)
\* "1,2,3,4,5,6,7,8,9"
ScenarioA ==
  << "1", ",", "2", ",", "3", ",", "4", ",", "5", ",", "6", ",", "7", ",",
     "8", ",", "9" >>

\* "1,2,3,4,5,6,7,8"
ScenarioF ==
  << "1", ",", "2", ",", "3", ",", "4", ",", "5", ",", "6", ",", "7", ",",
     "8" >>

\* "1,2,3,4,5,6,7,8,x"
NonNumeric ==
  << "1", ",", "2", ",", "3", ",", "4", ",", "5", ",", "6", ",", "7", ",",
     "8", ",", "x" >>

JsonHead ==
  << "{", "ka", ":", "[", "1", ",", "2", "]", ",",
     "kb", ":", "[", "[", "3", ",", "4", "]", ",", "[", "5", ",", "6", "]",
     "]", ",", "kc", ":", "[", "7", ",", "8", "]" >>

\* {"a":[1,2],"b":[[3,4],[5,6]],"c":[7,8],"input":[7]}
JsonSeven == JsonHead \o << ",", "kinput", ":", "[", "7", "]", "}" >>

\* {"a":[1,2],"b":[[3,4],[5,6]],"c":[7,8]}
JsonNoInput == JsonHead \o << "}" >>

\* an object sent as the zkpCode itself, without its c field
ObjectNoC ==
  Object(Vec(<<Str(<<"1">>), Str(<<"2">>)>>),
         Mat(<<Str(<<"3">>), Str(<<"4">>), Str(<<"5">>), Str(<<"6">>)>>,
             <<2, 2>>),
         Undefined,
         Vec(<<Str(<<"9">>)>>))

\* "1,2,3,4,5,6,7,8,9,x"
TenTokens == NonNumeric \o << ",", "x" >>

LoginCodes ==
  { NoCode, StringCode(<<>>), StringCode(<< "sp" >>), StringCode(ScenarioA),
    StringCode(ScenarioF), StringCode(TenTokens), StringCode(NonNumeric),
    StringCode(JsonSeven), StringCode(JsonNoInput), ObjectCode(ObjectNoC) }

(***************************************************************************)
(* State.                                                                  *)
(***************************************************************************)
VARIABLES
  ZKP_PRIVATE_KEY,     \* TRUE iff the environment holds a signing key
  users,               \* the account store: the records in order of creation
  attempts,            \* login requests received so far
  successes,           \* addresses of the 200 responses, in order
  anyFailure,          \* TRUE once some attempt was answered with a failure
  pc,                  \* per request slot: the call the attempt is waiting on
  zkpCode,             \* req.body.zkpCode
  sim,                 \* what simulateContract did: none, throw, invalid, valid
  write,               \* what writeContract did: none, ok, throw
  verificationResult,  \* isValid, address, zkpHash, txHash
  details,             \* what getClubDetails did, with admin and active
  membership,          \* what checkDetailedMembership did; any: some flag set
  clubMembership,      \* the decision: set, isMember, isOwner
  user,                \* _id of the account found or created, 0 for none
  isFirstUser,
  response,            \* the response sent, status 0 while there is none
  log,                 \* the external calls of the attempt, in order
  before,              \* the account store when the request arrived
  value,               \* parser check: the value handed to the parser
  stage,               \* parser check: idle, input, parsed, converted
  parseResult,         \* parser check: what parseZkpCode did
  argsResult,          \* parser check: what toContractArgs did
  validateResult       \* parser check: what the form's validate returned

storeVars == <<users, successes, anyFailure>>

attemptVars ==
  <<pc, zkpCode, sim, write, verificationResult, details, membership,
    clubMembership, user, isFirstUser, response, log, before>>

parserVars == <<value, stage, parseResult, argsResult, validateResult>>

vars == <<ZKP_PRIVATE_KEY, attempts, storeVars, attemptVars, parserVars>>

EmptyString == Scalar(Str(<<>>))

NoVerification ==
  [isValid |-> FALSE, address |-> NoAddress, zkpHash |-> Undefined,
   txHash |-> ""]

NoDetails == [result |-> "none", admin |-> NoAddress, active |-> FALSE]

NoMembership == [result |-> "none", any |-> FALSE]

NoDecision ==
  [set |-> FALSE, isMember |-> FALSE, isOwner |-> FALSE, clubName |-> ""]

NoResponse ==
  [status |-> 0, error |-> "", message |-> "", details |-> "",
   stack |-> FALSE, token |-> FALSE, address |-> NoAddress, txHash |-> ""]

Failure(status, error, message) ==
  [NoResponse EXCEPT !.status = status, !.error = error, !.message = message]

\* the outer catch of the controller
ServerError(errMessage) ==
  [NoResponse EXCEPT !.status = 500, !.error = "SERVER_ERROR",
     !.message = "An error occurred during ZKP authentication",
     !.details = errMessage, !.stack = TRUE]

Success(address, txHash) ==
  [NoResponse EXCEPT !.status = 200, !.token = TRUE, !.address = address,
     !.txHash = txHash]

NoAttempts ==
  /\ users = <<>>
  /\ attempts = 0
  /\ successes = <<>>
  /\ anyFailure = FALSE
  /\ pc = [p \in Procs |-> "idle"]
  /\ zkpCode = [p \in Procs |-> NoCode]
  /\ sim = [p \in Procs |-> "none"]
  /\ write = [p \in Procs |-> "none"]
  /\ verificationResult = [p \in Procs |-> NoVerification]
  /\ details = [p \in Procs |-> NoDetails]
  /\ membership = [p \in Procs |-> NoMembership]
  /\ clubMembership = [p \in Procs |-> NoDecision]
  /\ user = [p \in Procs |-> 0]
  /\ isFirstUser = [p \in Procs |-> FALSE]
  /\ response = [p \in Procs |-> NoResponse]
  /\ log = [p \in Procs |-> <<>>]
  /\ before = [p \in Procs |-> <<>>]

Init ==
  /\ ZKP_PRIVATE_KEY \in BOOLEAN
  /\ NoAttempts
  /\ value = NoCode
  /\ stage = "idle"
  /\ parseResult = Throw("")
  /\ argsResult = ArgsThrow("")
  /\ validateResult = ""

(***************************************************************************)
(* The account store and the decisions of the code.                        *)
(***************************************************************************)
\* findUser({ walletAddress }): the _id of the first matching record, or 0
findUser(store, walletAddress) ==
  LET ids == {i \in 1..Len(store) : store[i].walletAddress = walletAddress}
  IN  IF ids = {} THEN 0 ELSE CHOOSE i \in ids : \A j \in ids : i <= j

countUsers(store) == Len(store)

createUser(store, data) == Append(store, data)

\* updateUser(_id, { zkpHash })
updateUser(store, id, zkpHash) == [store EXCEPT ![id].zkpHash = zkpHash]

\* !zkpCode
MissingCode(code) ==
  \/ code.kind = "undefined"
  \/ code.kind = "string" /\ code.text = <<>>

\* the owner check without toLowerCase()
IsOwnerOfExact(admin, userAddress) == admin = userAddress

\* admin.toLowerCase() === userAddress.toLowerCase()
IsOwnerOf(admin, userAddress) == toLowerCase(admin) = toLowerCase(userAddress)

\* isPermanent || isTemporary || isTokenBased || isCrossChain || isOwner
IsMemberOf(flags, isOwner) ==
  flags[1] \/ flags[2] \/ flags[3] \/ flags[4] \/ isOwner

\* the controller without its check of isValid
ProofRejectedSkipped(result) == FALSE

\* !isValid in the controller
ProofRejected(result) == ~result.isValid

\* a controller that creates an account at every login
AbsentAlways(found) == TRUE

\* !user
Absent(found) == found = 0

Decision(isMember, isOwner) ==
  [set |-> TRUE, isMember |-> isMember, isOwner |-> isOwner,
   clubName |-> REQUIRED_CLUB_NAME]

\* the owner check made before the check of active
InactiveDecisionOwner(admin, userAddress) ==
  Decision(toLowerCase(admin) = toLowerCase(userAddress),
           toLowerCase(admin) = toLowerCase(userAddress))

\* the decision returned for an organization that is not active
InactiveDecision(admin, userAddress) == Decision(FALSE, FALSE)

\* the gate with its second test inverted
DeniedInverted(decision) == ~decision.isMember /\ decision.isOwner

\* !clubMembership.isMember && !clubMembership.isOwner
Denied(decision) == ~decision.isMember /\ ~decision.isOwner

\* the role with the two branches exchanged
RoleForSwapped(first) == IF first THEN "USER" ELSE "ADMIN"

\* isFirstUser ? SystemRoles.ADMIN : SystemRoles.USER
RoleFor(first) == IF first THEN "ADMIN" ELSE "USER"

newUserData(address, zkpHash, first) ==
  [walletAddress |-> address, zkpHash |-> zkpHash, role |-> RoleFor(first)]

NotClubMember ==
  Failure(403, "NOT_CLUB_MEMBER",
          "You must be a member of justhub to access this application")

\* a failed registry read answered as a denial
ClubCheckFailedAsDenial == NotClubMember

ClubCheckFailed ==
  Failure(500, "CLUB_CHECK_FAILED", "Failed to verify club membership")

(***************************************************************************)
(* Steps of one login attempt.  An action is the code that runs between    *)
(* two awaits; the external call it ends on answers in the next action.    *)
(***************************************************************************)
Respond(p, resp) ==
  /\ response' = [response EXCEPT ![p] = resp]
  /\ pc' = [pc EXCEPT ![p] = "done"]
  /\ anyFailure' = (anyFailure \/ resp.status # 200)
  /\ successes' =
       IF resp.status = 200 THEN Append(successes, resp.address)
       ELSE successes

Continue(p, next) ==
  /\ pc' = [pc EXCEPT ![p] = next]
  /\ UNCHANGED <<response, anyFailure, successes>>

Call(p, name) == log' = [log EXCEPT ![p] = Append(@, name)]

Called(p, name) == \E i \in 1..Len(log[p]) : log[p][i] = name

Count(p, name) == Cardinality({i \in 1..Len(log[p]) : log[p][i] = name})

\* the attempt has created an account
Created(p) == Called(p, "createUser") /\ user[p] # 0

\* verifyZkpProof has returned result to the controller
Verified(p, result) ==
  /\ verificationResult' = [verificationResult EXCEPT ![p] = result]
  /\ IF ProofRejected(result)
       THEN Respond(p, Failure(401, "PROOF_INVALID", "ZKP proof is invalid"))
       ELSE Continue(p, "getClubDetails")

\* the decision of checkClubMembership has reached the controller
Decided(p, decision) ==
  /\ clubMembership' = [clubMembership EXCEPT ![p] = decision]
  /\ IF Denied(decision) THEN Respond(p, NotClubMember)
     ELSE Continue(p, "findUser")

\* a request arrives at a free slot
Accept(p, code) ==
  /\ pc[p] = "idle"
  /\ pc' = [pc EXCEPT ![p] = "zkpLoginController"]
  /\ zkpCode' = [zkpCode EXCEPT ![p] = code]
  /\ attempts' = attempts + 1
  /\ before' = [before EXCEPT ![p] = users]
  /\ UNCHANGED <<ZKP_PRIVATE_KEY, storeVars, sim, write, verificationResult,
                 details, membership, clubMembership, user, isFirstUser,
                 response, log, parserVars>>

\* requests one after another: the next one arrives when no attempt is in
\* progress, at the first slot
Receive(p) ==
  /\ attempts < MaxAttempts
  /\ \A q \in Procs : pc[q] = "idle" /\ p <= q
  /\ \E code \in LoginCodes : Accept(p, code)

\* what verifyZkpProof throws before its first await: the message of the
\* exception of parseZkpCode or toContractArgs, "" when neither throws
ArgsError(args) == IF args.ok THEN "" ELSE args.error

ParseError(parsed) ==
  IF parsed.ok THEN ArgsError(toContractArgs(parsed.payload))
  ELSE parsed.error

VerifyError(code) == ParseError(parseZkpCode(code))

\* a controller that goes on whatever verifyZkpProof threw
StartedUnchecked(p, errMessage) == Continue(p, "simulateContract")

\* the controller after verifyZkpProof ran up to its first await
Started(p, errMessage) ==
  IF errMessage # ""
    THEN Respond(p, Failure(400, "INVALID_ZKP_CODE", errMessage))
    ELSE Continue(p, "simulateContract")

\* the controller up to the first await of verifyZkpProof
Handle(p) ==
  /\ pc[p] = "zkpLoginController"
  /\ IF MissingCode(zkpCode[p])
       THEN Respond(p, Failure(400, "INVALID_PAYLOAD", "zkpCode is required"))
       ELSE Started(p, VerifyError(zkpCode[p]))
  /\ UNCHANGED <<ZKP_PRIVATE_KEY, attempts, before, users, zkpCode, sim, write,
                 verificationResult, details, membership, clubMembership, user,
                 isFirstUser, log, parserVars>>

\* a controller that takes an exception of the verifier for a rejected proof
SimulateThrowsAsInvalid(p) ==
  /\ pc[p] = "simulateContract"
  /\ Call(p, "simulateContract")
  /\ sim' = [sim EXCEPT ![p] = "throw"]
  /\ Respond(p, Failure(401, "PROOF_INVALID", "ZKP proof is invalid"))
  /\ UNCHANGED <<ZKP_PRIVATE_KEY, attempts, before, users, zkpCode, write,
                 verificationResult, details, membership, clubMembership, user,
                 isFirstUser, parserVars>>

\* publicClient.simulateContract throws
SimulateThrows(p) ==
  /\ pc[p] = "simulateContract"
  /\ Call(p, "simulateContract")
  /\ sim' = [sim EXCEPT ![p] = "throw"]
  /\ Respond(p, Failure(400, "INVALID_ZKP_CODE", "RpcError"))
  /\ UNCHANGED <<ZKP_PRIVATE_KEY, attempts, before,
                 users, zkpCode, write, verificationResult,
                 details, membership, clubMembership, user, isFirstUser,
                 parserVars>>

InvalidResult ==
  [isValid |-> FALSE, address |-> NoAddress, zkpHash |-> EmptyString,
   txHash |-> ""]

\* payload.input[0]
InputOf(code) == Elem(parseZkpCode(code).payload.input, 0)

\* a verifier that submits the write with no wallet client
ValidWithoutWallet(p, result) ==
  /\ verificationResult' = [verificationResult EXCEPT ![p] = result]
  /\ Continue(p, "writeContract")

\* the proof is valid: the write follows when there is a wallet client
Valid(p, result) ==
  IF ZKP_PRIVATE_KEY
    THEN /\ verificationResult' = [verificationResult EXCEPT ![p] = result]
         /\ Continue(p, "writeContract")
    ELSE Verified(p, result)

\* publicClient.simulateContract returns [address, isValid]
SimulateReturns(p, address, isValid) ==
  /\ pc[p] = "simulateContract"
  /\ Call(p, "simulateContract")
  /\ sim' = [sim EXCEPT ![p] = IF isValid THEN "valid" ELSE "invalid"]
  /\ IF ~isValid THEN Verified(p, InvalidResult)
     ELSE Valid(p, [isValid |-> TRUE, address |-> address,
                    zkpHash |-> InputOf(zkpCode[p]), txHash |-> ""])
  /\ UNCHANGED <<ZKP_PRIVATE_KEY, attempts, before,
                 users, zkpCode, write, details,
                 membership, clubMembership, user, isFirstUser, parserVars>>

Simulate(p) ==
  \/ SimulateThrows(p)
  \/ \E address \in Addresses, isValid \in BOOLEAN :
       SimulateReturns(p, address, isValid)

\* walletClient.writeContract returns the transaction hash
WriteReturns(p) ==
  /\ pc[p] = "writeContract"
  /\ Call(p, "writeContract")
  /\ write' = [write EXCEPT ![p] = "ok"]
  /\ Verified(p, [verificationResult[p] EXCEPT !.txHash = "0xtx"])
  /\ UNCHANGED <<ZKP_PRIVATE_KEY, attempts, before,
                 users, zkpCode, sim, details,
                 membership, clubMembership, user, isFirstUser, parserVars>>

\* a verifier that lets the exception of writeContract reach the controller
WriteThrowsSurfaces(p) ==
  /\ pc[p] = "writeContract"
  /\ Call(p, "writeContract")
  /\ write' = [write EXCEPT ![p] = "throw"]
  /\ Respond(p, Failure(400, "INVALID_ZKP_CODE", "RpcError"))
  /\ UNCHANGED <<ZKP_PRIVATE_KEY, attempts, before, users, zkpCode, sim,
                 verificationResult, details, membership, clubMembership, user,
                 isFirstUser, parserVars>>

\* walletClient.writeContract throws: the exception is logged and txHash
\* stays undefined
WriteThrows(p) ==
  /\ pc[p] = "writeContract"
  /\ Call(p, "writeContract")
  /\ write' = [write EXCEPT ![p] = "throw"]
  /\ Verified(p, verificationResult[p])
  /\ UNCHANGED <<ZKP_PRIVATE_KEY, attempts, before,
                 users, zkpCode, sim, details,
                 membership, clubMembership, user, isFirstUser, parserVars>>

WriteContract(p) == WriteReturns(p) \/ WriteThrows(p)

\* readContract getClubDetails throws
DetailsThrows(p) ==
  /\ pc[p] = "getClubDetails"
  /\ Call(p, "getClubDetails")
  /\ details' = [details EXCEPT ![p].result = "throw"]
  /\ Respond(p, ClubCheckFailed)
  /\ UNCHANGED <<ZKP_PRIVATE_KEY, attempts, before, users, zkpCode, sim, write,
                 verificationResult, membership, clubMembership, user,
                 isFirstUser, parserVars>>

\* readContract getClubDetails returns [, admin, active]
DetailsReturns(p, admin, active) ==
  /\ pc[p] = "getClubDetails"
  /\ Call(p, "getClubDetails")
  /\ details' =
       [details EXCEPT
          ![p] = [result |-> "ok", admin |-> admin, active |-> active]]
  /\ IF ~active
       THEN Decided(p, InactiveDecision(admin, verificationResult[p].address))
       ELSE /\ Continue(p, "checkDetailedMembership")
            /\ UNCHANGED clubMembership
  /\ UNCHANGED <<ZKP_PRIVATE_KEY, attempts, before, users, zkpCode, sim, write,
                 verificationResult, membership, user, isFirstUser,
                 parserVars>>

GetClubDetails(p) ==
  \/ DetailsThrows(p)
  \/ \E admin \in Addresses, active \in BOOLEAN :
       DetailsReturns(p, admin, active)

\* a checker that repeats a failed membership read once
MembershipThrowsRetries(p) ==
  /\ pc[p] = "checkDetailedMembership"
  /\ Call(p, "checkDetailedMembership")
  /\ membership' = [membership EXCEPT ![p].result = "throw"]
  /\ IF Count(p, "checkDetailedMembership") = 0
       THEN Continue(p, "checkDetailedMembership")
       ELSE Respond(p, ClubCheckFailed)
  /\ UNCHANGED <<ZKP_PRIVATE_KEY, attempts, before, users, zkpCode, sim, write,
                 verificationResult, details, clubMembership, user,
                 isFirstUser, parserVars>>

\* readContract checkDetailedMembership throws
MembershipThrows(p) ==
  /\ pc[p] = "checkDetailedMembership"
  /\ Call(p, "checkDetailedMembership")
  /\ membership' = [membership EXCEPT ![p].result = "throw"]
  /\ Respond(p, ClubCheckFailed)
  /\ UNCHANGED <<ZKP_PRIVATE_KEY, attempts, before, users, zkpCode, sim, write,
                 verificationResult, details, clubMembership, user,
                 isFirstUser, parserVars>>

\* readContract checkDetailedMembership returns the four flags
MembershipReturns(p, flags) ==
  /\ pc[p] = "checkDetailedMembership"
  /\ Call(p, "checkDetailedMembership")
  /\ membership' =
       [membership EXCEPT
          ![p] = [result |-> "ok", any |-> \E i \in 1..4 : flags[i]]]
  /\ LET isOwner == IsOwnerOf(details[p].admin, verificationResult[p].address)
         isMember == IsMemberOf(flags, isOwner)
     IN  Decided(p, Decision(isMember, isOwner))
  /\ UNCHANGED <<ZKP_PRIVATE_KEY, attempts, before, users, zkpCode, sim, write,
                 verificationResult, details, user, isFirstUser, parserVars>>

CheckDetailedMembership(p) ==
  \/ MembershipThrows(p)
  \/ \E flags \in FlagSets : MembershipReturns(p, flags)

\* an awaited call of the account store, the configuration or the token
\* issuer rejects: the outer catch answers
CallThrows(p, name, errMessage) ==
  /\ pc[p] = name
  /\ Call(p, name)
  /\ Respond(p, ServerError(errMessage))
  /\ UNCHANGED <<ZKP_PRIVATE_KEY, attempts, before, users, zkpCode, sim, write,
                 verificationResult, details, membership, clubMembership, user,
                 isFirstUser, parserVars>>

FindUser(p) ==
  /\ pc[p] = "findUser"
  /\ Call(p, "findUser")
  /\ LET found == findUser(users, verificationResult[p].address)
     IN  /\ user' = [user EXCEPT ![p] = found]
         /\ Continue(p, IF Absent(found) THEN "countUsers" ELSE "updateUser")
  /\ UNCHANGED <<ZKP_PRIVATE_KEY, attempts, before, users, zkpCode, sim, write,
                 verificationResult, details, membership, clubMembership,
                 isFirstUser, parserVars>>

CountUsers(p) ==
  /\ pc[p] = "countUsers"
  /\ Call(p, "countUsers")
  /\ isFirstUser' = [isFirstUser EXCEPT ![p] = (countUsers(users) = 0)]
  /\ Continue(p, "getAppConfig")
  /\ UNCHANGED <<ZKP_PRIVATE_KEY, attempts, before, users, zkpCode, sim, write,
                 verificationResult, details, membership, clubMembership, user,
                 parserVars>>

GetAppConfig(p) ==
  /\ pc[p] = "getAppConfig"
  /\ Call(p, "getAppConfig")
  /\ Continue(p, "createUser")
  /\ UNCHANGED <<ZKP_PRIVATE_KEY, attempts, before, users, zkpCode, sim, write,
                 verificationResult, details, membership, clubMembership, user,
                 isFirstUser, parserVars>>

\* a controller that creates only while no concurrent attempt has created
\* an account for the same address
CreateUserExclusive(p) ==
  /\ pc[p] = "createUser"
  /\ \A q \in Procs \ {p} :
       ~(Created(q)
         /\ verificationResult[q].address = verificationResult[p].address)
  /\ Call(p, "createUser")
  /\ users' =
       createUser(users,
                  newUserData(verificationResult[p].address,
                              verificationResult[p].zkpHash, isFirstUser[p]))
  /\ user' = [user EXCEPT ![p] = Len(users')]
  /\ Continue(p, "setAuthTokens")
  /\ UNCHANGED <<ZKP_PRIVATE_KEY, attempts, before,
                 zkpCode, sim, write, verificationResult,
                 details, membership, clubMembership, isFirstUser, parserVars>>

CreateUser(p) ==
  /\ pc[p] = "createUser"
  /\ Call(p, "createUser")
  /\ users' =
       createUser(users,
                  newUserData(verificationResult[p].address,
                              verificationResult[p].zkpHash, isFirstUser[p]))
  /\ user' = [user EXCEPT ![p] = Len(users')]
  /\ Continue(p, "setAuthTokens")
  /\ UNCHANGED <<ZKP_PRIVATE_KEY, attempts, before,
                 zkpCode, sim, write, verificationResult,
                 details, membership, clubMembership, isFirstUser, parserVars>>

\* a controller whose update also resets the role
UpdateUserResetsRole(p) ==
  /\ pc[p] = "updateUser"
  /\ Call(p, "updateUser")
  /\ users' =
       [updateUser(users, user[p], verificationResult[p].zkpHash)
          EXCEPT ![user[p]].role = "USER"]
  /\ Continue(p, "setAuthTokens")
  /\ UNCHANGED <<ZKP_PRIVATE_KEY, attempts, before, zkpCode, sim, write,
                 verificationResult, details, membership, clubMembership, user,
                 isFirstUser, parserVars>>

UpdateUser(p) ==
  /\ pc[p] = "updateUser"
  /\ Call(p, "updateUser")
  /\ users' = updateUser(users, user[p], verificationResult[p].zkpHash)
  /\ Continue(p, "setAuthTokens")
  /\ UNCHANGED <<ZKP_PRIVATE_KEY, attempts, before,
                 zkpCode, sim, write, verificationResult,
                 details, membership, clubMembership, user, isFirstUser,
                 parserVars>>

SetAuthTokens(p) ==
  /\ pc[p] = "setAuthTokens"
  /\ Call(p, "setAuthTokens")
  /\ Respond(p, Success(verificationResult[p].address,
                        verificationResult[p].txHash))
  /\ UNCHANGED <<ZKP_PRIVATE_KEY, attempts, before, users, zkpCode, sim, write,
                 verificationResult, details, membership, clubMembership, user,
                 isFirstUser, parserVars>>

StoreThrows(p) ==
  \E name \in {"findUser", "countUsers", "createUser", "updateUser"} :
    CallThrows(p, name, "StoreError")

ConfigThrows(p) == CallThrows(p, "getAppConfig", "ConfigError")

TokenThrows(p) == CallThrows(p, "setAuthTokens", "TokenError")

\* the response has been sent: the slot is free for the next request
Finish(p) ==
  /\ pc[p] = "done"
  /\ pc' = [pc EXCEPT ![p] = "idle"]
  /\ zkpCode' = [zkpCode EXCEPT ![p] = NoCode]
  /\ sim' = [sim EXCEPT ![p] = "none"]
  /\ write' = [write EXCEPT ![p] = "none"]
  /\ verificationResult' = [verificationResult EXCEPT ![p] = NoVerification]
  /\ details' = [details EXCEPT ![p] = NoDetails]
  /\ membership' = [membership EXCEPT ![p] = NoMembership]
  /\ clubMembership' = [clubMembership EXCEPT ![p] = NoDecision]
  /\ user' = [user EXCEPT ![p] = 0]
  /\ isFirstUser' = [isFirstUser EXCEPT ![p] = FALSE]
  /\ response' = [response EXCEPT ![p] = NoResponse]
  /\ log' = [log EXCEPT ![p] = <<>>]
  /\ before' = [before EXCEPT ![p] = <<>>]
  /\ UNCHANGED <<ZKP_PRIVATE_KEY, attempts, storeVars, parserVars>>

Step(p) ==
  \/ Handle(p)
  \/ Simulate(p)
  \/ WriteContract(p)
  \/ GetClubDetails(p)
  \/ CheckDetailedMembership(p)
  \/ FindUser(p)
  \/ CountUsers(p)
  \/ GetAppConfig(p)
  \/ CreateUser(p)
  \/ UpdateUser(p)
  \/ SetAuthTokens(p)
  \/ StoreThrows(p)
  \/ ConfigThrows(p)
  \/ TokenThrows(p)

(***************************************************************************)
(* Login attempts one after another.                                       *)
(***************************************************************************)
Next == \E p \in Procs : Receive(p) \/ Step(p) \/ Finish(p)

Spec == Init /\ [][Next]_vars

(***************************************************************************)
(* Concurrent login attempts: every slot serves one request, and the       *)
(* attempts interleave at every await.                                     *)
(***************************************************************************)
\* the requests of concurrent attempts: none, too short, and a full proof
ConcurrentCodes == {NoCode, StringCode(ScenarioF), StringCode(ScenarioA)}

ReceiveConc(p) == \E code \in ConcurrentCodes : Accept(p, code)

NextConc == \E p \in Procs : ReceiveConc(p) \/ Step(p)

SpecConc == Init /\ [][NextConc]_vars

(***************************************************************************)
(* Properties of one login attempt.                                        *)
(***************************************************************************)
StoreCalls == {"findUser", "countUsers", "createUser", "updateUser"}

Is(resp, status, error) == resp.status = status /\ resp.error = error

\* C1: a 200 response with a token is sent, and the token issuer is invoked,
\* only in an attempt whose simulation returned isValid = true and whose
\* membership decision has isMember or isOwner
C1_SuccessOnlyForVerifiedMember ==
  \A p \in Procs :
    (response[p].status = 200 \/ response[p].token
       \/ Called(p, "setAuthTokens"))
    => /\ sim[p] = "valid"
       /\ clubMembership[p].set
       /\ clubMembership[p].isMember \/ clubMembership[p].isOwner

C1_Witness ==
  \E p \in Procs :
    /\ response[p].status = 200 /\ response[p].token
    /\ clubMembership[p].isMember /\ ~clubMembership[p].isOwner

\* C2: when the simulation returns isValid = false the verifier returns
\* {isValid: false, address: '', zkpHash: ''}, no write is attempted, the
\* answer is PROOF_INVALID (401), and neither a registry read nor an account
\* store call is made
C2_InvalidProofStopsAttempt ==
  \A p \in Procs :
    sim[p] = "invalid"
    => /\ verificationResult[p].isValid = FALSE
       /\ verificationResult[p].address = NoAddress
       /\ verificationResult[p].zkpHash = EmptyString
       /\ Is(response[p], 401, "PROOF_INVALID")
       /\ log[p] = <<"simulateContract">>

C2_Witness ==
  \E p \in Procs :
    sim[p] = "invalid" /\ ZKP_PRIVATE_KEY /\ pc[p] = "done" /\ users # <<>>

\* C3: a failed registry read ends the attempt with CLUB_CHECK_FAILED (500),
\* never NOT_CLUB_MEMBER or success; the read is not repeated and no account
\* is created or updated
C3_RegistryFailureIsReported ==
  \A p \in Procs :
    (details[p].result = "throw" \/ membership[p].result = "throw")
    => /\ sim[p] = "valid"
       /\ Is(response[p], 500, "CLUB_CHECK_FAILED")
       /\ ~response[p].token
       /\ Count(p, "getClubDetails") = 1
       /\ Count(p, "checkDetailedMembership") <= 1
       /\ \A name \in StoreCalls \cup {"setAuthTokens"} : ~Called(p, name)

C3_Witness ==
  \E p \in Procs :
    /\ details[p].result = "ok" /\ membership[p].result = "throw"
    /\ Is(response[p], 500, "CLUB_CHECK_FAILED")
    /\ users # <<>>

\* C4: for an organization that is not active the decision is isMember =
\* false and isOwner = false whatever the candidate address, the membership
\* registry is not read, and the attempt ends with NOT_CLUB_MEMBER (403)
C4_InactiveOrganizationAdmitsNoOne ==
  \A p \in Procs :
    (details[p].result = "ok" /\ ~details[p].active)
    => /\ clubMembership[p] = Decision(FALSE, FALSE)
       /\ membership[p].result = "none"
       /\ ~Called(p, "checkDetailedMembership")
       /\ Is(response[p], 403, "NOT_CLUB_MEMBER")

C4_Witness ==
  \E p \in Procs :
    /\ details[p].result = "ok" /\ ~details[p].active
    /\ details[p].admin = verificationResult[p].address
    /\ pc[p] = "done"

ReconcilingOrIssued(p) ==
  \/ pc[p] \in {"findUser", "countUsers", "getAppConfig", "createUser",
                "updateUser", "setAuthTokens"}
  \/ pc[p] = "done" /\ response[p].status = 200
  \/ pc[p] = "done" /\ Is(response[p], 500, "SERVER_ERROR")

\* C5: with an active organization whose admin equals the verified address
\* up to letter case, the decision has isOwner and isMember and the attempt
\* goes on to account reconciliation and session issuance, also when all
\* four membership flags are false
C5_OwnerIsAdmitted ==
  \A p \in Procs :
    ( /\ details[p].result = "ok" /\ details[p].active
      /\ membership[p].result = "ok"
      /\ toLowerCase(details[p].admin)
           = toLowerCase(verificationResult[p].address) )
    => /\ clubMembership[p] = Decision(TRUE, TRUE)
       /\ ReconcilingOrIssued(p)

C5_Witness ==
  \E p \in Procs :
    /\ response[p].status = 200 /\ response[p].token
    /\ details[p].active /\ ~membership[p].any
    /\ details[p].admin # verificationResult[p].address
    /\ toLowerCase(details[p].admin)
         = toLowerCase(verificationResult[p].address)

(***************************************************************************)
(* Properties of the account store.                                        *)
(***************************************************************************)
\* the addresses of a sequence in order of first occurrence
RECURSIVE Distinct(_, _)
Distinct(seq, acc) ==
  IF seq = <<>> THEN acc
  ELSE IF \E i \in 1..Len(acc) : acc[i] = Head(seq)
    THEN Distinct(Tail(seq), acc)
    ELSE Distinct(Tail(seq), Append(acc, Head(seq)))

AccountsOf(address) ==
  {i \in 1..Len(users) : users[i].walletAddress = address}

HasRole(address, role) ==
  \E i \in AccountsOf(address) : users[i].role = role

C7_AdminIffFirstCreated ==
  (\A p, q \in Procs :
     p # q /\ sim[p] = "valid" /\ sim[q] = "valid"
     => verificationResult[p].address # verificationResult[q].address)
  => /\ \A i \in 1..Len(users) : users[i].role = "ADMIN" <=> i = 1
     /\ Cardinality({i \in 1..Len(users) : users[i].role = "ADMIN"}) <= 1

\* the public input of the proofs that pass toContractArgs
PublicInput(code) ==
  IF code = StringCode(ScenarioA) THEN Scalar(Str(<<"9">>))
  ELSE IF code = StringCode(JsonSeven) THEN Scalar(Num(<<"7">>))
  ELSE Undefined

Earlier(address) ==
  Cardinality({i \in 1..(Len(successes) - 1) : successes[i] = address})

\* C8: in a run of successful attempts made one after another every address
\* has at most one account; the first success for an address makes one
\* createUser call and no updateUser call, every later one makes one
\* updateUser call and no createUser call, and the account then holds the
\* public input of the new proof as zkpHash
C8_CreateOnceThenUpdate ==
  /\ \A address \in Addresses : Cardinality(AccountsOf(address)) <= 1
  /\ \A p \in Procs :
       (pc[p] = "done" /\ response[p].status = 200 /\ ~anyFailure)
       => /\ user[p] \in AccountsOf(response[p].address)
          /\ users[user[p]].zkpHash = PublicInput(zkpCode[p])
          /\ Count(p, "createUser")
               = (IF Earlier(response[p].address) = 0 THEN 1 ELSE 0)
          /\ Count(p, "updateUser")
               = (IF Earlier(response[p].address) = 0 THEN 0 ELSE 1)

C8_Witness ==
  \E p \in Procs :
    /\ pc[p] = "done" /\ response[p].status = 200 /\ ~anyFailure
    /\ Earlier(response[p].address) = 1
    /\ zkpCode[p] = StringCode(JsonSeven)
    /\ Len(users) = 1
    /\ Count(p, "updateUser") = 1

\* C9: nothing in the controller keeps two concurrent first logins for one
\* address apart: an attempt that found no account can always go on to
\* createUser, and every accepted createUser adds a record, so an address
\* has as many accounts as attempts that created one for it
C9_NoMutualExclusion ==
  /\ \A p \in Procs : pc[p] = "createUser" => ENABLED CreateUser(p)
  /\ \A address \in Addresses :
       Cardinality(AccountsOf(address))
         = Cardinality({p \in Procs :
                          Created(p)
                          /\ verificationResult[p].address = address})

C9_Witness ==
  \E p, q \in Procs :
    /\ p # q
    /\ verificationResult[p].address = verificationResult[q].address
    /\ Created(p) /\ Created(q)
    /\ Called(p, "countUsers") /\ Called(q, "countUsers")
    /\ Cardinality(AccountsOf(verificationResult[p].address)) = 2

(***************************************************************************)
(* The parser on its own: a value is parsed by parseZkpCode, checked by    *)
(* the form's validate and, when the parser returned a payload, converted  *)
(* by toContractArgs.                                                      *)
(***************************************************************************)
\* the JSON text of one member, for each way of writing or omitting a field
Variants == {"array", "absent", "null", "zero", "empty", "false"}

GoodText(key) ==
  CASE key = "ka" -> << "[", "1", ",", "2", "]" >>
    [] key = "kb" ->
         << "[", "[", "3", ",", "4", "]", ",", "[", "5", ",", "6", "]", "]" >>
    [] key = "kc" -> << "[", "7", ",", "8", "]" >>
    [] key = "kinput" -> << "[", "q", "9", "q", "]" >>

ValueText(key, variant) ==
  CASE variant = "array" -> GoodText(key)
    [] variant = "null" -> << "null" >>
    [] variant = "zero" -> << "0" >>
    [] variant = "empty" -> << "q", "q" >>
    [] variant = "false" -> << "false" >>

KeyOrder == << "ka", "kb", "kc", "kinput" >>

RECURSIVE MembersText(_, _, _)
MembersText(i, choice, acc) ==
  IF i > Len(KeyOrder) THEN acc
  ELSE IF choice[i] = "absent" THEN MembersText(i + 1, choice, acc)
  ELSE MembersText(i + 1, choice,
                   (IF acc = <<>> THEN acc ELSE Append(acc, ","))
                     \o << KeyOrder[i], ":" >>
                     \o ValueText(KeyOrder[i], choice[i]))

JsonText(choice) == << "{" >> \o MembersText(1, choice, <<>>) \o << "}" >>

\* nine values: 1 to 9, and the same with 2^53 + 1 or 2^53 + 3 first
NineValues ==
  { [i \in 1..9 |-> IF i = 1 THEN first ELSE << DigitOf(i) >>] :
      first \in { << "1" >>,
                  SubSeq(TwoTo53, 1, 15) \o << "3" >>,
                  SubSeq(TwoTo53, 1, 15) \o << "5" >> } }

\* the comma-separated encoding of nine values
CommaOf(tokens) ==
  tokens[1] \o << "," >> \o tokens[2] \o << "," >> \o tokens[3] \o << "," >>
    \o tokens[4] \o << "," >> \o tokens[5] \o << "," >> \o tokens[6]
    \o << "," >> \o tokens[7] \o << "," >> \o tokens[8] \o << "," >>
    \o tokens[9]

\* the JSON encoding of nine values, written as JSON strings (quoted) or
\* as JSON numbers
JsonOf(tokens, quoted) ==
  LET t == [i \in 1..9 |->
              IF quoted THEN << "q" >> \o tokens[i] \o << "q" >> ELSE tokens[i]]
  IN  << "{", "ka", ":", "[" >> \o t[1] \o << "," >> \o t[2]
        \o << "]", ",", "kb", ":", "[", "[" >> \o t[3] \o << "," >> \o t[4]
        \o << "]", ",", "[" >> \o t[5] \o << "," >> \o t[6]
        \o << "]", "]", ",", "kc", ":", "[" >> \o t[7] \o << "," >> \o t[8]
        \o << "]", ",", "kinput", ":", "[" >> \o t[9] \o << "]", "}" >>

ParseInputs ==
  {StringCode(JsonText(choice)) : choice \in [1..4 -> Variants]}
    \cup {StringCode(CommaOf(tokens)) : tokens \in NineValues}
    \cup {StringCode(JsonOf(tokens, quoted)) :
            tokens \in NineValues, quoted \in BOOLEAN}
    \cup {StringCode(text) :
            text \in { ScenarioA, ScenarioF, NonNumeric, JsonSeven, JsonNoInput,
                       << "sp" >> \o JsonNoInput \o << "sp" >>,
                       << "{", "ka", ":" >>,
                       << "zw" >> \o JsonSeven }}
    \cup {ObjectCode(ObjectNoC)}

InitParse ==
  /\ ZKP_PRIVATE_KEY = FALSE
  /\ NoAttempts
  /\ value \in ParseInputs
  /\ stage = "input"
  /\ parseResult = Throw("")
  /\ argsResult = ArgsThrow("")
  /\ validateResult = ""

Parse ==
  /\ stage = "input"
  /\ parseResult' = parseZkpCode(value)
  /\ stage' = "parsed"
  /\ UNCHANGED <<ZKP_PRIVATE_KEY, attempts, storeVars, attemptVars, value,
                 argsResult, validateResult>>

Validate ==
  /\ stage = "parsed"
  /\ validateResult' = validate(value)
  /\ stage' = "validated"
  /\ UNCHANGED <<ZKP_PRIVATE_KEY, attempts, storeVars, attemptVars, value,
                 parseResult, argsResult>>

Convert ==
  /\ stage = "validated"
  /\ parseResult.ok
  /\ argsResult' = toContractArgs(parseResult.payload)
  /\ stage' = "converted"
  /\ UNCHANGED <<ZKP_PRIVATE_KEY, attempts, storeVars, attemptVars, value,
                 parseResult, validateResult>>

NextParse == Parse \/ Validate \/ Convert

SpecParse == InitParse /\ [][NextParse]_vars

\* C10: a text that starts with { after trimming, parses as JSON and lacks a
\* truthy a, b, c or input makes parseZkpCode fail with INVALID_ZKP_FORMAT
C10_MissingFieldRejected ==
  ( /\ stage # "input"
    /\ value.kind = "string"
    /\ StartsWithBrace(Trim(value.text))
    /\ JsonParse(Trim(value.text)).ok
    /\ LacksField(JsonParse(Trim(value.text)).payload) )
  => parseResult = Throw("INVALID_ZKP_FORMAT")

(***************************************************************************)
(* Properties of the parser inside a login attempt.                        *)
(***************************************************************************)
\* C11 as stated: a text outside the JSON branch with a token count other
\* than 9 fails to parse with INVALID_ZKP_CODE, and the attempt that carries
\* it is answered INVALID_ZKP_CODE (400) with no external call made
C11_WrongCountIsInvalidCode ==
  \A p \in Procs :
    ( /\ zkpCode[p].kind = "string"
      /\ ~StartsWithBrace(Trim(zkpCode[p].text))
      /\ Len(SplitComma(StripZeroWidth(Trim(zkpCode[p].text)))) # 9 )
    => /\ parseZkpCode(zkpCode[p]) = Throw("INVALID_ZKP_CODE")
       /\ log[p] = <<>>
       /\ pc[p] \in {"zkpLoginController", "done"}
       /\ pc[p] = "done" => Is(response[p], 400, "INVALID_ZKP_CODE")

\* C11 amended: the same for every text that is not empty; the empty text
\* is answered INVALID_PAYLOAD (400), also with no external call made
C11_NonEmptyWrongCountIsInvalidCode ==
  \A p \in Procs :
    ( /\ zkpCode[p].kind = "string"
      /\ ~StartsWithBrace(Trim(zkpCode[p].text))
      /\ Len(SplitComma(StripZeroWidth(Trim(zkpCode[p].text)))) # 9 )
    => /\ parseZkpCode(zkpCode[p]) = Throw("INVALID_ZKP_CODE")
       /\ log[p] = <<>>
       /\ pc[p] \in {"zkpLoginController", "done"}
       /\ pc[p] = "done"
            => IF zkpCode[p].text = <<>>
                 THEN Is(response[p], 400, "INVALID_PAYLOAD")
                 ELSE /\ Is(response[p], 400, "INVALID_ZKP_CODE")
                      /\ response[p].message = "INVALID_ZKP_CODE"

C11_Witness ==
  \E p \in Procs :
    /\ zkpCode[p] = StringCode(ScenarioF)
    /\ Is(response[p], 400, "INVALID_ZKP_CODE")
    /\ log[p] = <<>>
    /\ users # <<>>

\* C12: a text of nine comma-separated tokens parses to a payload with the
\* tokens at their positions (0-1 in a, 2-3 in b[0], 4-5 in b[1], 6-7 in c,
\* 8 in input), and the JSON encoding of the same nine values converts to
\* the same contract arguments as the comma-separated encoding
C12_SameArgumentsFromBothEncodings ==
  \A tokens \in NineValues :
    /\ (stage # "input" /\ value = StringCode(CommaOf(tokens)))
       => /\ parseResult.ok
          /\ parseResult.payload.a = Vec(<<Str(tokens[1]), Str(tokens[2])>>)
          /\ Elem(parseResult.payload.b, 0)
               = Vec(<<Str(tokens[3]), Str(tokens[4])>>)
          /\ Elem(parseResult.payload.b, 1)
               = Vec(<<Str(tokens[5]), Str(tokens[6])>>)
          /\ parseResult.payload.c = Vec(<<Str(tokens[7]), Str(tokens[8])>>)
          /\ parseResult.payload.input = Vec(<<Str(tokens[9])>>)
    /\ \A quoted \in BOOLEAN :
         (stage = "converted" /\ value = StringCode(JsonOf(tokens, quoted)))
         => argsResult
              = toContractArgs(
                  parseZkpCode(StringCode(CommaOf(tokens))).payload)

(***************************************************************************)
(* Properties of the on-chain write and of the responses.                  *)
(***************************************************************************)
\* C13: once the simulation returned isValid = true the verifier returns
\* isValid = true, the simulated address and payload.input[0] whether there
\* is no wallet client, the write returned or the write threw; the write
\* never makes the attempt fail; txHash is present exactly when there is a
\* wallet client and the write returned; the response is decided by the
\* later steps alone and carries that txHash
C13_WriteNeverAffectsVerification ==
  \A p \in Procs :
    (sim[p] = "valid" /\ pc[p] \notin {"simulateContract", "writeContract"})
    => /\ verificationResult[p].isValid
       /\ verificationResult[p].address \in Addresses
       /\ verificationResult[p].zkpHash = InputOf(zkpCode[p])
       /\ write[p] \in (IF ZKP_PRIVATE_KEY THEN {"ok", "throw"} ELSE {"none"})
       /\ verificationResult[p].txHash # ""
            <=> (ZKP_PRIVATE_KEY /\ write[p] = "ok")
       /\ response[p].status \notin {400, 401}
       /\ pc[p] = "done"
            => \/ /\ Is(response[p], 500, "CLUB_CHECK_FAILED")
                  /\ "throw" \in {details[p].result, membership[p].result}
               \/ /\ Is(response[p], 403, "NOT_CLUB_MEMBER")
                  /\ Denied(clubMembership[p])
               \/ /\ Is(response[p], 500, "SERVER_ERROR")
                  /\ clubMembership[p].set /\ ~Denied(clubMembership[p])
               \/ /\ response[p].status = 200
                  /\ Called(p, "setAuthTokens")
                  /\ response[p].address = verificationResult[p].address
                  /\ response[p].txHash = verificationResult[p].txHash

C13_Witness ==
  \E p \in Procs :
    /\ ZKP_PRIVATE_KEY /\ write[p] = "throw"
    /\ response[p].status = 200 /\ response[p].txHash = ""
    /\ verificationResult[p].zkpHash = Scalar(Str(<< "9" >>))

\* C14: the response is that of the first step that failed: no zkpCode gives
\* INVALID_PAYLOAD (400); an exception of the parser, the conversion or the
\* simulation gives INVALID_ZKP_CODE (400); isValid = false gives
\* PROOF_INVALID (401); a failed registry read gives CLUB_CHECK_FAILED (500);
\* a decision without member or owner gives NOT_CLUB_MEMBER (403); an
\* exception of the account store, the configuration or the token issuer
\* gives SERVER_ERROR (500); otherwise the response is 200 with a token
C14_ResponseOfFirstFailure ==
  \A p \in Procs :
    pc[p] = "done"
    => IF MissingCode(zkpCode[p])
         THEN Is(response[p], 400, "INVALID_PAYLOAD") /\ log[p] = <<>>
       ELSE IF VerifyError(zkpCode[p]) # ""
         THEN /\ Is(response[p], 400, "INVALID_ZKP_CODE")
              /\ response[p].message = VerifyError(zkpCode[p])
              /\ log[p] = <<>>
       ELSE IF sim[p] = "throw"
         THEN Is(response[p], 400, "INVALID_ZKP_CODE")
       ELSE IF sim[p] = "invalid"
         THEN Is(response[p], 401, "PROOF_INVALID")
       ELSE IF "throw" \in {details[p].result, membership[p].result}
         THEN Is(response[p], 500, "CLUB_CHECK_FAILED")
       ELSE IF ~( /\ details[p].active
                  /\ \/ membership[p].any
                     \/ toLowerCase(details[p].admin)
                          = toLowerCase(verificationResult[p].address) )
         THEN Is(response[p], 403, "NOT_CLUB_MEMBER")
       ELSE IF log[p][Len(log[p])] # "setAuthTokens"
         THEN Is(response[p], 500, "SERVER_ERROR") /\ ~response[p].token
       ELSE \/ response[p].status = 200 /\ response[p].token
            \/ /\ Is(response[p], 500, "SERVER_ERROR")
               /\ response[p].details = "TokenError"
               /\ ~response[p].token

C14_Witness ==
  \E p \in Procs :
    /\ pc[p] = "done" /\ sim[p] = "throw"
    /\ Is(response[p], 400, "INVALID_ZKP_CODE")
    /\ zkpCode[p] = StringCode(JsonSeven)
    /\ successes # <<>>

\* C15: a failure response carries the error code and a fixed message only:
\* neither the message nor the stack of the exception behind it
C15_NoRawExceptionInResponse ==
  \A p \in Procs :
    response[p].status \notin {0, 200}
    => /\ response[p].message
            \notin {"RpcError", "SyntaxError", "TypeError", "StoreError",
                     "ConfigError", "TokenError"}
       /\ response[p].details = ""
       /\ ~response[p].stack

(***************************************************************************)
(* Properties of the steps that change the account store.                  *)
(***************************************************************************)
\* C16: the update of a login that found an account changes the zkpHash of
\* that account to payload.input[0] of the proof and nothing else: not its
\* role or walletAddress, no other account, not the number of accounts; no
\* other step of such a login changes the store; the create of a login that
\* found none appends one record with that zkpHash
C16_UpdateChangesOnlyHash ==
  [][\A p \in Procs :
       /\ (pc[p] = "updateUser" /\ pc'[p] = "setAuthTokens")
          => /\ Len(users') = Len(users)
             /\ users[user[p]].walletAddress = verificationResult[p].address
             /\ \A i \in 1..Len(users) :
                  users'[i] =
                    IF i = user[p]
                      THEN [users[i] EXCEPT !.zkpHash = InputOf(zkpCode[p])]
                      ELSE users[i]
       /\ (Called(p, "findUser") /\ user[p] # 0 /\ pc[p] # "updateUser")
          => users' = users
       /\ (pc[p] = "createUser" /\ pc'[p] = "setAuthTokens")
          => /\ Len(users') = Len(users) + 1
             /\ SubSeq(users', 1, Len(users)) = users
             /\ users'[Len(users')].zkpHash = InputOf(zkpCode[p])
             /\ users'[Len(users')].walletAddress
                  = verificationResult[p].address]_vars

C16_Witness ==
  \E p \in Procs :
    /\ response[p].status = 200
    /\ log[p][Len(log[p]) - 1] = "updateUser"
    /\ users[user[p]].role = "ADMIN"
    /\ users[user[p]].zkpHash = Scalar(Num(<< "7" >>))
    /\ verificationResult[p].txHash = "0xtx"

\* C17: addresses are compared without regard to letter case: the decision
\* has isOwner for an admin that differs from the verified address in case
\* only, and logins whose verified addresses differ in case only share one
\* account, so no two accounts have addresses equal up to case
C17_AddressesCompareWithoutCase ==
  /\ \A p \in Procs :
       (membership[p].result = "ok"
        /\ toLowerCase(details[p].admin)
             = toLowerCase(verificationResult[p].address))
       => clubMembership[p].isOwner
  /\ \A i, j \in 1..Len(users) :
       toLowerCase(users[i].walletAddress) = toLowerCase(users[j].walletAddress)
       => i = j

(***************************************************************************)
(* Properties of the order of the external calls.                          *)
(***************************************************************************)
\* C18: the calls of an attempt are made in the order simulateContract,
\* writeContract, getClubDetails, checkDetailedMembership, the store calls,
\* setAuthTokens, each at most once; a call is made only after the steps
\* before it let the attempt go on (a throwing writeContract does, as the
\* verifier swallows it); once a failure response is sent no call is made:
\* the last call of the attempt stays the one the failure came from
C18_CallsInOrderAndOnce ==
  LET Rank(name) ==
        CASE name = "simulateContract" -> 1
          [] name = "writeContract" -> 2
          [] name = "getClubDetails" -> 3
          [] name = "checkDetailedMembership" -> 4
          [] name = "findUser" -> 5
          [] name = "countUsers" -> 6
          [] name = "getAppConfig" -> 7
          [] name \in {"createUser", "updateUser"} -> 8
          [] name = "setAuthTokens" -> 9
      Last(p) == log[p][Len(log[p])]
  IN  \A p \in Procs :
        /\ \A i \in 1..(Len(log[p]) - 1) :
             Rank(log[p][i]) < Rank(log[p][i + 1])
        /\ log[p] # <<>>
             => log[p][1] = "simulateContract" /\ VerifyError(zkpCode[p]) = ""
        /\ Called(p, "writeContract") => sim[p] = "valid" /\ ZKP_PRIVATE_KEY
        /\ Called(p, "getClubDetails")
             => /\ sim[p] = "valid"
                /\ ZKP_PRIVATE_KEY => Called(p, "writeContract")
        /\ Called(p, "checkDetailedMembership")
             => details[p].result = "ok" /\ details[p].active
        /\ Called(p, "findUser")
             => membership[p].result = "ok" /\ ~Denied(clubMembership[p])
        /\ Called(p, "countUsers") => Called(p, "findUser")
        /\ Called(p, "getAppConfig") => Called(p, "countUsers")
        /\ Called(p, "createUser") => Called(p, "getAppConfig")
        /\ Called(p, "updateUser")
             => Called(p, "findUser") /\ ~Called(p, "countUsers")
        /\ Called(p, "setAuthTokens")
             => Called(p, "createUser") \/ Called(p, "updateUser")
        /\ response[p].status # 0 <=> pc[p] = "done"
        /\ response[p].status = 400
             => log[p] = <<>> \/ (sim[p] = "throw" /\ Rank(Last(p)) = 1)
        /\ response[p].status = 401
             => sim[p] = "invalid" /\ Rank(Last(p)) = 1
        /\ Is(response[p], 500, "CLUB_CHECK_FAILED")
             => \/ details[p].result = "throw" /\ Rank(Last(p)) = 3
                \/ membership[p].result = "throw" /\ Rank(Last(p)) = 4
        /\ response[p].status = 403
             => \/ ~details[p].active /\ Rank(Last(p)) = 3
                \/ membership[p].result = "ok" /\ Rank(Last(p)) = 4
        /\ Is(response[p], 500, "SERVER_ERROR") => Rank(Last(p)) >= 5
        /\ response[p].status = 200 => Rank(Last(p)) = 9

C18_Witness ==
  \E p \in Procs :
    /\ pc[p] = "done"
    /\ log[p] = << "simulateContract", "writeContract", "getClubDetails",
                   "checkDetailedMembership", "findUser", "countUsers",
                   "getAppConfig", "createUser", "setAuthTokens" >>


\* C19: an attempt answered with a failure leaves the account store as it
\* was when the request arrived: no record created, no zkpHash changed
C19_FailureLeavesStoreUnchanged ==
  \A p \in Procs :
    (pc[p] = "done" /\ response[p].status # 200) => users = before[p]

\* C20: an attempt answered NOT_CLUB_MEMBER or CLUB_CHECK_FAILED has not
\* submitted the on-chain write of its verification
C20_WriteOnlyForAdmittedAttempts ==
  \A p \in Procs :
    (Is(response[p], 403, "NOT_CLUB_MEMBER")
       \/ Is(response[p], 500, "CLUB_CHECK_FAILED"))
      => write[p] = "none" /\ ~Called(p, "writeContract")

\* C20, as the code has it: the on-chain write is submitted only with a
\* signing key and only after the simulation returned isValid = true, so no
\* attempt answered with status 400 or 401 has submitted it; the membership
\* check comes after the write and does not hold it back
C20_WriteOnlyForValidProofs ==
  \A p \in Procs :
    (write[p] # "none" \/ Called(p, "writeContract"))
      => /\ ZKP_PRIVATE_KEY
         /\ sim[p] = "valid"
         /\ verificationResult[p].isValid
         /\ response[p].status \notin {400, 401}
         /\ log[p][1] = "simulateContract" /\ log[p][2] = "writeContract"

C20_Witness ==
  \E p \in Procs :
    /\ Is(response[p], 403, "NOT_CLUB_MEMBER")
    /\ write[p] = "ok"
    /\ verificationResult[p].txHash # ""
    /\ ~Called(p, "findUser")

====
